---- MODULE Spec2Model ----
(***************************************************************************)
(* Model of dashboard/app.py: a Streamlit page over an Elasticsearch       *)
(* store.  Every browser session runs the script top to bottom (a render   *)
(* pass) after each user interaction or st.rerun(); the pass reads the     *)
(* store through fetch_pipelines (cached, ttl=30) and fetch_completions,   *)
(* and its widget handlers call add_tag, rate_completion, mark_finetuned.  *)
(*                                                                         *)
(* Modelling decisions:                                                    *)
(*  - searches see every acknowledged update (the store is read-after-     *)
(*    write consistent; the spec states its guarantees under that proviso);*)
(*  - es.update is the store's get / modify / index-if-unchanged: the      *)
(*    request reads the document, and the index step fails with a version  *)
(*    conflict when the document was reindexed in between;                 *)
(*  - a keyed widget keeps its state across passes while its parameters    *)
(*    (here the slider's default value) are unchanged, and is a new widget *)
(*    showing the default when they change;                                *)
(*  - the sidebar's show_finetuned and search_query stay at their defaults *)
(*    (True, ""), so only the rating filter removes rows;                  *)
(*  - a missing "tags" field is the empty list and a missing "finetuned"   *)
(*    field is False (the script and completion.get treat them alike).     *)
(***************************************************************************)
EXTENDS Integers, Sequences, FiniteSets, TLC

\* ------------------------------------------------------------- bounds
\* interactions of the one user (page load, clicks, slider moves, filter changes)
MaxActions == 3
\* interactions of each of two concurrent users
ConcActions == 2
\* seconds that pass in one Tick, and the Ticks of one run
TickStep == 20
MaxTicks == 2
\* store errors (a failed search or update) in one run
MaxFaults == 1
\* direct calls in the function-level specification
MaxCalls == 2

\* ------------------------------------------------- program constants
TTL == 30
SliderMin == 1
SliderMax == 5

Sessions == {"s1", "s2"}
DocOrder == <<"d1", "d2", "d3">>
Docs == {DocOrder[i] : i \in 1..Len(DocOrder)}
Pipelines == {"p1", "p2"}
PipelineOf == [d \in Docs |-> IF d = "d3" THEN "p2" ELSE "p1"]
DocsOf(p) == {d \in Docs : PipelineOf[d] = p}
TagInputs == {"", "a", "b"}

\* ------------------------------------------------------ Python values
\* A rating as Python sees it: its type and its numeric value (True is 1).
PyInt(n) == [ty |-> "int", v |-> n]
PyNone == [ty |-> "none", v |-> 0]
PyTrue == [ty |-> "bool", v |-> 1]
PyFalse == [ty |-> "bool", v |-> 0]
PyFloat(n) == [ty |-> "float", v |-> n]
PyStr(n) == [ty |-> "str", v |-> n]

Range(f) == {f[i] : i \in DOMAIN f}

VARIABLES
  store,    \* the Elasticsearch documents: doc id -> _source
  cache,    \* st.cache_data's entry for fetch_pipelines, shared by all sessions
  pc,       \* per session: where its script run is
  event,    \* per session: the interaction that triggered the current run
  cursor,   \* per session: the completion card and widget the run has reached
  req,      \* per session: the es.update call in flight
  widget,   \* per session and completion: the rating slider's widget state
  filter,   \* per session: the sidebar's Minimum Rating
  view,     \* per session: what the last run put on the page
  budget,   \* per session: user interactions left
  faults,   \* store errors still to come
  ticks,    \* Ticks still to come
  calls,    \* direct calls made (function-level specification)
  last      \* the last direct call and its outcome

vars == <<store, cache, pc, event, cursor, req, widget, filter, view, budget,
          faults, ticks, calls, last>>

\* the documents the pipelines have logged when the dashboard is opened
InitStore ==
  [d \in Docs |->
     [rating |-> IF d = "d1" THEN PyInt(5) ELSE IF d = "d2" THEN PyInt(3) ELSE PyNone,
      tags |-> IF d = "d1" THEN <<"a">> ELSE <<>>,
      finetuned |-> FALSE]]

\* ------------------------------------------------------------ records
NoHead == [shown |-> FALSE, rating |-> PyNone, tags |-> <<>>]
NoCard == [shown |-> FALSE, rating |-> PyNone, tags |-> <<>>, finetuned |-> FALSE]
NoEvent == [kind |-> "none", op |-> "none", doc |-> "d1", tag |-> "", r |-> 0]
NoReq == [op |-> "none", doc |-> "d1", tag |-> "", r |-> PyNone,
          src |-> [rating |-> PyNone, tags |-> <<>>, finetuned |-> FALSE],
          stale |-> FALSE]
NoCache == [valid |-> FALSE, age |-> 0, rows |-> [p \in Pipelines |-> NoHead]]
CleanWidget == [dirty |-> FALSE, def |-> SliderMin, val |-> SliderMin]
NoView == [heads |-> [p \in Pipelines |-> NoHead],
           cards |-> [d \in Docs |-> NoCard],
           msgs |-> {}, cause |-> "none", queried |-> FALSE, crashed |-> FALSE]
TopCursor == [i |-> 1, stage |-> "fetch"]

\* the st.error messages of the mutation layer (lines 145, 174, 168, 189, 207)
TagEmptyMsg == "Tag cannot be empty"
RatingRangeMsg == "Rating must be between 1 and 5"
ErrorMsg(op) ==
  IF op = "tag" THEN "Error adding tag"
  ELSE IF op = "rate" THEN "Error rating completion"
  ELSE "Error marking as finetuned"

\* ------------------------------------------------- the mutation layer
\* a variant of add_tag without its guard
AddTagValidNone(tag) == TRUE

\* add_tag's guard: `if not tag` rejects the empty string
AddTagValid(tag) == tag # ""

\* rate_completion's guard: isinstance(rating, int) and 1 <= rating <= 5.
\* bool is a subclass of int in Python, so True (== 1) passes.
RateValid(r) == r.ty \in {"int", "bool"} /\ r.v >= 1 /\ r.v <= 5

\* a variant of the script without its contains test
ScriptAddTagAlways(tags, tag) == Append(tags, tag)

\* the painless script of add_tag: append unless already contained
ScriptAddTag(tags, tag) ==
  IF \E i \in DOMAIN tags : tags[i] = tag THEN tags ELSE Append(tags, tag)

\* a variant that indexes a whole new document instead of updating one field
ApplyUpdateWholeDoc(src, op, tag, r) ==
  CASE op = "tag" -> [rating |-> PyNone, tags |-> <<tag>>, finetuned |-> FALSE]
    [] op = "rate" -> [rating |-> r, tags |-> <<>>, finetuned |-> FALSE]
    [] op = "ft" -> [rating |-> PyNone, tags |-> <<>>, finetuned |-> TRUE]
    [] OTHER -> src

\* what es.update's body does to a document's _source
ApplyUpdate(src, op, tag, r) ==
  CASE op = "tag" -> [src EXCEPT !.tags = ScriptAddTag(src.tags, tag)]
    [] op = "rate" -> [src EXCEPT !.rating = r]
    [] op = "ft" -> [src EXCEPT !.finetuned = TRUE]
    [] OTHER -> src

\* a partial-document update that changes nothing is a noop (detect_noop):
\* the document is not reindexed.  A scripted update always reindexes.
IsNoop(src, op, tag, r) == op \in {"rate", "ft"} /\ ApplyUpdate(src, op, tag, r) = src

\* a variant of the store without the version check (the last writer wins)
VersionOkAlways(q) == TRUE

\* the index step succeeds only if the document was not reindexed since the get
VersionOk(q) == ~q.stale

\* ---------------------------------------------------- the query layer
\* fetch_pipelines' body: one row per pipelineHash bucket, taken from the
\* bucket's top hit.  The top_hits aggregation states no sort, so which
\* document of the bucket is the top hit is the store's choice (rep).  A store
\* error is caught and an empty list returned.
RepChoices == {f \in [Pipelines -> Docs] : \A p \in Pipelines : f[p] \in DocsOf(p)}

QueryPipelines(ok, rep) ==
  IF ok
  THEN [p \in Pipelines |->
          [shown |-> TRUE, rating |-> store[rep[p]].rating, tags |-> store[rep[p]].tags]]
  ELSE [p \in Pipelines |-> NoHead]

\* a variant of the cache without a ttl
CacheFreshForever(c) == c.valid

\* st.cache_data(ttl=30): the entry is served while it is younger than the ttl
CacheFresh(c) == c.valid /\ c.age < TTL

\* fetch_completions' body for one pipeline: the documents of the pipeline as
\* the store holds them now; a store error is caught and [] returned
QueryCompletions(p, ok, cards) ==
  [d \in Docs |->
     IF PipelineOf[d] # p THEN cards[d]
     ELSE IF ok
          THEN [shown |-> TRUE, rating |-> store[d].rating, tags |-> store[d].tags,
                finetuned |-> store[d].finetuned]
          ELSE NoCard]

\* ------------------------------------------------ the presentation layer
\* `if not pipelines`: the list is empty
NoPipelines(rows) == \A p \in Pipelines : ~rows[p].shown

\* df['rating'] raises KeyError when no row carries a rating (the DataFrame
\* has the column only if some row has the key); reached only if R > 1
FilterCrashes(rows, R) ==
  R > 1 /\ \A p \in Pipelines : rows[p].shown => rows[p].rating = PyNone

\* df[df['rating'] >= rating_filter], applied only `if rating_filter > 1`;
\* a row without rating is NaN, and NaN >= R is False
RatingFilter(rows, R) ==
  {p \in Pipelines : rows[p].shown /\
     (R > 1 => (rows[p].rating # PyNone /\ rows[p].rating.v >= R))}

Heads(rows, R) ==
  [p \in Pipelines |-> IF p \in RatingFilter(rows, R) THEN rows[p] ELSE NoHead]

\* the script's walk over the cards: completions are nested under their
\* pipeline's expander, in DocOrder
NumDocs == Len(DocOrder)
DocAt(c) == DocOrder[c.i]
FirstOfPipeline(i) == i = 1 \/ PipelineOf[DocOrder[i - 1]] # PipelineOf[DocOrder[i]]

\* the first card at or after index i that belongs to a displayed pipeline and
\* opens it (NumDocs + 1: none, the loop over pipelines is over)
RECURSIVE EnterFrom(_, _)
EnterFrom(i, heads) ==
  IF i > NumDocs THEN NumDocs + 1
  ELSE IF FirstOfPipeline(i) /\ heads[PipelineOf[DocOrder[i]]].shown THEN i
  ELSE EnterFrom(i + 1, heads)

\* where the script is after the card at c.i has been fully rendered
AfterCard(c, heads) ==
  IF c.i < NumDocs /\ ~FirstOfPipeline(c.i + 1)
  THEN [i |-> c.i + 1, stage |-> "slider"]
  ELSE [i |-> EnterFrom(c.i + 1, heads), stage |-> "fetch"]

\* the widget after the one at stage st of the same card
NextStage(st) == IF st = "slider" THEN "tag" ELSE "ft"

\* completion.get('rating', 1)
CurrentRating(card) == IF card.rating = PyNone THEN SliderMin ELSE card.rating.v

\* the select_slider's return value: the widget's state while its default is
\* the one it was created with, else the (new) default
SliderKept(w, current) == w.dirty /\ w.def = current
SliderValue(w, current) == IF SliderKept(w, current) THEN w.val ELSE current

\* the client side of the three mutation functions: validate, then es.update
rate_completion(r) == IF ~RateValid(r) THEN "invalid" ELSE "update"
add_tag(tag) == IF ~AddTagValid(tag) THEN "invalid" ELSE "update"
mark_finetuned == "update"

\* a variant of the card that draws the button whatever the flag
FinetuneOfferedAlways(card) == card.shown

\* lines 328-329: the Mark as Finetuned button is drawn only if not finetuned
FinetuneOffered(card) == card.shown /\ ~card.finetuned

\* The script from position c up to its next call of the store: the handlers
\* of the cards, in order.  ws is the session's slider states, ev the
\* interaction that triggered the run, ms the messages shown so far.  The
\* result says where the script stops and, if it stops in es.update, with
\* which request.
Stop(c, ws, ms) ==
  [cursor |-> c, ws |-> ws, msgs |-> ms, op |-> "none", tag |-> "", r |-> PyNone]
Call(c, ws, ms, op, tag, r) ==
  [cursor |-> c, ws |-> ws, msgs |-> ms, op |-> op, tag |-> tag, r |-> r]

RECURSIVE Walk(_, _, _, _, _, _)
Walk(c, cards, heads, ws, ev, ms) ==
  IF c.i > NumDocs \/ c.stage = "fetch" THEN Stop(c, ws, ms)
  ELSE
    LET d == DocOrder[c.i]
        card == cards[d]
    IN IF c.stage = "slider"
       THEN \* lines 305-314: the rating slider; a changed value is written
         LET current == CurrentRating(card)
             new == SliderValue(ws[d], current)
             ws2 == [ws EXCEPT ![d] = IF SliderKept(@, current) THEN @ ELSE CleanWidget]
         IN IF new # current
            THEN IF rate_completion(PyInt(new)) = "update"
                 THEN Call(c, ws2, ms, "rate", "", PyInt(new))
                 ELSE Walk([c EXCEPT !.stage = "tag"], cards, heads, ws2, ev,
                           ms \cup {RatingRangeMsg})
            ELSE Walk([c EXCEPT !.stage = "tag"], cards, heads, ws2, ev, ms)
       ELSE IF c.stage = "tag"
       THEN \* lines 317-320: the Add Tag button, True in the run its click caused
         IF ev.kind = "tag" /\ ev.doc = d
         THEN IF add_tag(ev.tag) = "update"
              THEN Call(c, ws, ms, "tag", ev.tag, PyNone)
              ELSE Walk([c EXCEPT !.stage = "ft"], cards, heads, ws, ev,
                        ms \cup {TagEmptyMsg})
         ELSE Walk([c EXCEPT !.stage = "ft"], cards, heads, ws, ev, ms)
       ELSE \* lines 328-331: the Mark as Finetuned button
         IF FinetuneOffered(card) /\ ev.kind = "ft" /\ ev.doc = d
            /\ mark_finetuned = "update"
         THEN Call(c, ws, ms, "ft", "", PyNone)
         ELSE Walk(AfterCard(c, heads), cards, heads, ws, ev, ms)

\* at the end of a run Streamlit forgets the state of every widget the run did
\* not draw
Rendered(ws, cards) == [d \in Docs |-> IF cards[d].shown THEN ws[d] ELSE CleanWidget]

\* session s runs its script on from c with the page vw: into es.update (the
\* store gets the document), to the next expander, or to the end of the run
\* (past the last card the Analytics tab reads fetch_pipelines again, from
\* the cache)
Resume(s, c, vw) ==
  LET w == Walk(c, vw.cards, vw.heads, widget[s], event[s], vw.msgs)
  IN /\ widget' = [widget EXCEPT ![s] =
                     IF w.op = "none" /\ w.cursor.i > NumDocs
                     THEN Rendered(w.ws, vw.cards) ELSE w.ws]
     /\ view' = [view EXCEPT ![s] = [vw EXCEPT !.msgs = w.msgs]]
     /\ IF w.op # "none"
        THEN /\ req' = [req EXCEPT ![s] =
                          [op |-> w.op, doc |-> DocAt(w.cursor), tag |-> w.tag,
                           r |-> w.r, src |-> store[DocAt(w.cursor)],
                           stale |-> FALSE]]
             /\ pc' = [pc EXCEPT ![s] = "update"]
             /\ cursor' = [cursor EXCEPT ![s] = w.cursor]
             /\ UNCHANGED event
        ELSE IF w.cursor.i > NumDocs
        THEN /\ req' = [req EXCEPT ![s] = NoReq]
             /\ pc' = [pc EXCEPT ![s] = "idle"]
             /\ cursor' = [cursor EXCEPT ![s] = TopCursor]
             /\ event' = [event EXCEPT ![s] = NoEvent]
        ELSE /\ req' = [req EXCEPT ![s] = NoReq]
             /\ pc' = [pc EXCEPT ![s] = "cards"]
             /\ cursor' = [cursor EXCEPT ![s] = w.cursor]
             /\ UNCHANGED event

\* the outcomes of a store call: it answers, or (while errors are left) fails
Outcomes == IF faults > 0 THEN BOOLEAN ELSE {TRUE}

\* ------------------------------------------------------------- states
NoCall == [fn |-> "none", doc |-> "d1", tag |-> "", r |-> PyNone, ret |-> FALSE,
           issued |-> FALSE, accepted |-> FALSE, msg |-> "", prev |-> InitStore]

InitPage ==
  /\ store = InitStore
  /\ cache = NoCache
  /\ pc = [s \in Sessions |-> "closed"]
  /\ event = [s \in Sessions |-> NoEvent]
  /\ cursor = [s \in Sessions |-> TopCursor]
  /\ req = [s \in Sessions |-> NoReq]
  /\ widget = [s \in Sessions |-> [d \in Docs |-> CleanWidget]]
  /\ filter = [s \in Sessions |-> SliderMin]
  /\ view = [s \in Sessions |-> NoView]
  /\ calls = 0
  /\ last = NoCall

\* one user, and a store that may fail
Init ==
  /\ InitPage
  /\ budget = [s \in Sessions |-> IF s = "s1" THEN MaxActions ELSE 0]
  /\ faults = MaxFaults
  /\ ticks = MaxTicks

\* two users at once, and a store that answers every call (it still reports
\* version conflicts); time stands still
InitConc ==
  /\ InitPage
  /\ budget = [s \in Sessions |-> ConcActions]
  /\ faults = 0
  /\ ticks = 0

\* no page: the mutation functions are called directly
InitCalls ==
  /\ InitPage
  /\ budget = [s \in Sessions |-> 0]
  /\ faults = 0
  /\ ticks = 0

\* ------------------------------------------------------ the script run
\* lines 219-225: the Refresh button clears the cache and reruns
RefreshPass(s) ==
  /\ pc[s] = "start"
  /\ event[s].kind = "refresh"
  /\ cache' = NoCache
  /\ event' = [event EXCEPT ![s] = [NoEvent EXCEPT !.kind = "refreshed"]]
  /\ UNCHANGED <<store, pc, cursor, req, widget, filter, view, budget, faults,
                 ticks, calls, last>>

\* lines 229-261: fetch_pipelines (cached), the filters, the headers
StartPass(s) ==
  /\ pc[s] = "start"
  /\ event[s].kind # "refresh"
  /\ \E ok \in Outcomes, rep \in RepChoices :
       LET hit == CacheFresh(cache)
           rows == IF hit THEN cache.rows ELSE QueryPipelines(ok, rep)
           crash == ~NoPipelines(rows) /\ FilterCrashes(rows, filter[s])
           heads == IF crash THEN [p \in Pipelines |-> NoHead]
                    ELSE Heads(rows, filter[s])
           first == EnterFrom(1, heads)
       IN /\ cache' = IF hit THEN cache
                      ELSE [valid |-> TRUE, age |-> 0, rows |-> rows]
          /\ faults' = IF ~hit /\ ~ok THEN faults - 1 ELSE faults
          /\ view' = [view EXCEPT ![s] =
                        [heads |-> heads, cards |-> [d \in Docs |-> NoCard],
                         msgs |-> {}, cause |-> event[s].kind,
                         queried |-> ~hit, crashed |-> crash]]
          /\ IF first > NumDocs
             THEN /\ pc' = [pc EXCEPT ![s] = "idle"]
                  /\ event' = [event EXCEPT ![s] = NoEvent]
                  /\ widget' = [widget EXCEPT ![s] = [d \in Docs |-> CleanWidget]]
             ELSE /\ pc' = [pc EXCEPT ![s] = "cards"]
                  /\ UNCHANGED <<event, widget>>
          /\ cursor' = [cursor EXCEPT ![s] =
                          IF first > NumDocs THEN TopCursor
                          ELSE [i |-> first, stage |-> "fetch"]]
  /\ UNCHANGED <<store, req, filter, budget, ticks, calls, last>>

\* line 263 on: fetch_completions for the pipeline whose expander opens here,
\* then its cards
FetchCompletions(s) ==
  /\ pc[s] = "cards"
  /\ cursor[s].stage = "fetch"
  /\ \E ok \in Outcomes :
       LET p == PipelineOf[DocAt(cursor[s])]
           vw == [view[s] EXCEPT !.cards = QueryCompletions(p, ok, @)]
       IN /\ faults' = IF ok THEN faults ELSE faults - 1
          /\ Resume(s, IF ok THEN [i |-> cursor[s].i, stage |-> "slider"]
                       ELSE [i |-> EnterFrom(cursor[s].i + 1, view[s].heads),
                             stage |-> "fetch"],
                    vw)
  /\ UNCHANGED <<store, cache, filter, budget, ticks, calls, last>>

\* ---------------------------------------------------------- the store
\* es.update returns: the document is written (or the partial document was a
\* noop), the handler gets True and calls st.rerun()
UpdateOk(s) ==
  /\ pc[s] = "update"
  /\ LET q == req[s]
         noop == IsNoop(q.src, q.op, q.tag, q.r)
     IN /\ noop \/ VersionOk(q)
        /\ store' = IF noop THEN store
                    ELSE [store EXCEPT ![q.doc] = ApplyUpdate(q.src, q.op, q.tag, q.r)]
        /\ req' = [t \in Sessions |->
                     IF t = s THEN NoReq
                     ELSE IF ~noop /\ req[t].op # "none" /\ req[t].doc = q.doc
                          THEN [req[t] EXCEPT !.stale = TRUE]
                          ELSE req[t]]
        /\ event' = [event EXCEPT ![s] =
                       [kind |-> "rerun", op |-> q.op, doc |-> q.doc, tag |-> q.tag,
                        r |-> q.r.v]]
  /\ pc' = [pc EXCEPT ![s] = "start"]
  /\ cursor' = [cursor EXCEPT ![s] = TopCursor]
  /\ UNCHANGED <<cache, widget, filter, view, budget, faults, ticks, calls, last>>

\* where the script goes on after a handler whose call returned False
AfterHandler(c, heads) ==
  IF c.stage = "ft" THEN AfterCard(c, heads)
  ELSE [i |-> c.i, stage |-> NextStage(c.stage)]

\* the except branch: st.error, return False, and the script goes on
Failed(s) ==
  Resume(s, AfterHandler(cursor[s], view[s].heads),
         [view[s] EXCEPT !.msgs = @ \cup {ErrorMsg(req[s].op)}])

\* es.update raises a version conflict (the document was reindexed between
\* the get and the index step)
UpdateConflict(s) ==
  /\ pc[s] = "update"
  /\ ~VersionOk(req[s])
  /\ ~IsNoop(req[s].src, req[s].op, req[s].tag, req[s].r)
  /\ Failed(s)
  /\ UNCHANGED <<store, cache, filter, budget, faults, ticks, calls, last>>

\* es.update raises (the store is unreachable or rejects the write)
UpdateFails(s) ==
  /\ pc[s] = "update"
  /\ faults > 0
  /\ faults' = faults - 1
  /\ Failed(s)
  /\ UNCHANGED <<store, cache, filter, budget, ticks, calls, last>>

\* ----------------------------------------------------------- the user
\* a browser opens the page: the script runs for the first time
OpenPage(s) ==
  /\ pc[s] = "closed"
  /\ budget[s] > 0
  /\ budget' = [budget EXCEPT ![s] = @ - 1]
  /\ pc' = [pc EXCEPT ![s] = "start"]
  /\ UNCHANGED <<store, cache, event, cursor, req, widget, filter, view, faults,
                 ticks, calls, last>>

\* every interaction with a widget of the page reruns the script
Interact(s, kind, d, tag, r) ==
  /\ pc[s] = "idle"
  /\ budget[s] > 0
  /\ budget' = [budget EXCEPT ![s] = @ - 1]
  /\ event' = [event EXCEPT ![s] =
                 [kind |-> kind, op |-> "none", doc |-> d, tag |-> tag, r |-> r]]
  /\ pc' = [pc EXCEPT ![s] = "start"]
  /\ UNCHANGED <<store, cache, cursor, req, view, faults, ticks, calls, last>>

MoveSlider(s, d, r) ==
  LET current == CurrentRating(view[s].cards[d])
  IN /\ view[s].cards[d].shown
     /\ r # SliderValue(widget[s][d], current)
     /\ Interact(s, "slider", d, "", r)
     /\ widget' = [widget EXCEPT ![s][d] =
                     IF r = current THEN CleanWidget
                     ELSE [dirty |-> TRUE, def |-> current, val |-> r]]
     /\ UNCHANGED filter

ClickAddTag(s, d, t) ==
  /\ view[s].cards[d].shown
  /\ Interact(s, "tag", d, t, 0)
  /\ UNCHANGED <<widget, filter>>

ClickFinetune(s, d) ==
  /\ FinetuneOffered(view[s].cards[d])
  /\ Interact(s, "ft", d, "", 0)
  /\ UNCHANGED <<widget, filter>>

ClickRefresh(s) ==
  /\ Interact(s, "refresh", "d1", "", 0)
  /\ UNCHANGED <<widget, filter>>

SetFilter(s, R) ==
  /\ R # filter[s]
  /\ Interact(s, "filter", "d1", "", R)
  /\ filter' = [filter EXCEPT ![s] = R]
  /\ UNCHANGED widget

\* time passes; only the cache entry's age depends on it
Tick ==
  /\ ticks > 0
  /\ CacheFresh(cache)
  /\ ticks' = ticks - 1
  /\ cache' = [cache EXCEPT !.age = @ + TickStep]
  /\ UNCHANGED <<store, pc, event, cursor, req, widget, filter, view, budget,
                 faults, calls, last>>

\* what the page does in every specification
NextPage ==
  \/ \E s \in Sessions : OpenPage(s)
  \/ \E s \in Sessions : RefreshPass(s)
  \/ \E s \in Sessions : StartPass(s)
  \/ \E s \in Sessions : FetchCompletions(s)
  \/ \E s \in Sessions : UpdateOk(s)
  \/ \E s \in Sessions, d \in Docs, r \in SliderMin..SliderMax : MoveSlider(s, d, r)
  \/ \E s \in Sessions, d \in Docs, t \in TagInputs : ClickAddTag(s, d, t)
  \/ \E s \in Sessions, d \in Docs : ClickFinetune(s, d)
  \/ \E s \in Sessions : ClickRefresh(s)
  \/ \E s \in Sessions, R \in SliderMin..SliderMax : SetFilter(s, R)

\* one user: the store may fail, time passes
Next ==
  \/ NextPage
  \/ \E s \in Sessions : UpdateFails(s)
  \/ Tick

Spec == Init /\ [][Next]_vars

\* two users: their updates may conflict
NextConc ==
  \/ NextPage
  \/ \E s \in Sessions : UpdateConflict(s)

SpecConc == InitConc /\ [][NextConc]_vars

\* ------------------------------------------------- the functions alone
\* The mutation functions called directly, one call at a time, with any
\* argument a Python caller can pass.
RateInputs ==
  {PyInt(n) : n \in (SliderMin - 1)..(SliderMax + 1)}
    \cup {PyTrue, PyFalse, PyFloat(3), PyStr(3), PyNone}

DirectCall(fn, d, tag, r, valid, invalidMsg) ==
  /\ calls < MaxCalls
  /\ calls' = calls + 1
  /\ \E accept \in BOOLEAN :
       LET ret == valid /\ accept
       IN /\ store' = IF ret
                      THEN [store EXCEPT ![d] = ApplyUpdate(@, fn, tag, r)]
                      ELSE store
          /\ last' = [fn |-> fn, doc |-> d, tag |-> tag, r |-> r, ret |-> ret,
                      issued |-> valid, accepted |-> accept,
                      msg |-> IF ~valid THEN invalidMsg
                              ELSE IF ~accept THEN ErrorMsg(fn) ELSE "",
                      prev |-> store]
  /\ UNCHANGED <<cache, pc, event, cursor, req, widget, filter, view, budget,
                 faults, ticks>>

CallRateCompletion(d, r) ==
  DirectCall("rate", d, "", r, rate_completion(r) = "update", RatingRangeMsg)

CallAddTag(d, t) ==
  DirectCall("tag", d, t, PyNone, add_tag(t) = "update", TagEmptyMsg)

CallMarkFinetuned(d) ==
  DirectCall("ft", d, "", PyNone, mark_finetuned = "update", "")

NextCalls ==
  \/ \E d \in Docs, r \in RateInputs : CallRateCompletion(d, r)
  \/ \E d \in Docs, t \in TagInputs : CallAddTag(d, t)
  \/ \E d \in Docs : CallMarkFinetuned(d)

SpecCalls == InitCalls /\ [][NextCalls]_vars

\* ============================================================ properties
CardOf(src) ==
  [shown |-> TRUE, rating |-> src.rating, tags |-> src.tags, finetuned |-> src.finetuned]

\* every completion card on s's page shows its document as the store holds it
CardsCurrent(s) ==
  \A d \in Docs : view[s].cards[d].shown => view[s].cards[d] = CardOf(store[d])

\* every pipeline header on s's page shows some document of its bucket as the
\* store holds it
HeadsCurrent(s) ==
  \A p \in Pipelines :
    view[s].heads[p].shown =>
      \E d \in DocsOf(p) : /\ view[s].heads[p].rating = store[d].rating
                           /\ view[s].heads[p].tags = store[d].tags

\* the run that followed a successful mutation (st.rerun) has ended
AfterMutation(s) == pc[s] = "idle" /\ view[s].cause = "rerun"

\* C1: after a successful mutation everything the next run displays, the
\* pipeline headers and the completion cards, reflects the store after that
\* mutation.
C1_ReadAfterWrite ==
  \A s \in Sessions : AfterMutation(s) => CardsCurrent(s) /\ HeadsCurrent(s)

\* C2: no add_tag loses a tag: a successful add_tag leaves its tag in the
\* document's list, and no step of any session removes a tag from a list, so
\* after two successful calls both tags and all earlier tags are present.
C2_NoLostTag ==
  [][/\ \A d \in Docs : Range(store[d].tags) \subseteq Range(store'[d].tags)
     /\ \A s \in Sessions :
          (pc[s] = "update" /\ pc'[s] = "start" /\ req[s].op = "tag")
            => req[s].tag \in Range(store'[req[s].doc].tags)]_vars

\* C2, a case of it: each of the two users has added one tag to d2
C2_Witness ==
  /\ Range(store["d2"].tags) = {"a", "b"}
  /\ \A s \in Sessions : budget[s] = 0 /\ pc[s] = "idle"

NoDuplicates(tags) == \A i, j \in DOMAIN tags : tags[i] = tags[j] => i = j

\* C3: add_tag is idempotent: a successful call with a tag the document
\* already holds leaves the list as it was, and no list ever holds a tag twice.
C3_Idempotent ==
  /\ \A d \in Docs : NoDuplicates(store[d].tags)
  /\ (last.fn = "tag" /\ last.ret /\ last.tag \in Range(last.prev[last.doc].tags))
       => store[last.doc].tags = last.prev[last.doc].tags

\* C3, a case of it: the second successful add_tag("d2", "b")
C3_Witness ==
  /\ calls = 2
  /\ last.fn = "tag" /\ last.ret /\ last.doc = "d2" /\ last.tag = "b"
  /\ last.prev["d2"].tags = <<"b">>

\* an integer from 1 to 5
IsRating(r) == r.ty = "int" /\ r.v >= 1 /\ r.v <= 5

\* C4: rate_completion returns True iff its rating is an integer
\* from 1 to 5 (and the store accepts the write); otherwise it reports the
\* validation error, calls the store not at all and leaves the document as it
\* was; so every stored rating is an integer from 1 to 5.
C4_Claim ==
  /\ last.fn = "rate" =>
       /\ last.ret <=> (IsRating(last.r) /\ last.accepted)
       /\ last.ret => store[last.doc].rating = last.r
       /\ ~IsRating(last.r) =>
            /\ ~last.issued
            /\ last.msg = RatingRangeMsg
            /\ store = last.prev
  /\ \A d \in Docs : store[d].rating # PyNone => IsRating(store[d].rating)

\* C5: an Add Tag click with an empty tag never becomes a store call and never
\* causes a rerun; the run that showed "Tag cannot be empty" is the run the
\* click started, and it ends with the cards showing the store unchanged.
C5_EmptyTagRejected ==
  \A s \in Sessions :
    /\ (pc[s] = "update" /\ req[s].op = "tag") => req[s].tag # ""
    /\ (event[s].kind = "rerun" /\ event[s].op = "tag") => event[s].tag # ""
    /\ (pc[s] = "idle" /\ TagEmptyMsg \in view[s].msgs)
         => view[s].cause = "tag" /\ CardsCurrent(s)

\* C5, a case of it: a run has rejected an empty tag and ended
C5_Witness ==
  \E s \in Sessions : pc[s] = "idle" /\ TagEmptyMsg \in view[s].msgs

\* the interaction that asks for request q
Asks(ev, q) ==
  /\ ev.doc = q.doc
  /\ \/ q.op = "rate" /\ ev.kind = "slider" /\ ev.r = q.r.v
     \/ q.op = "tag" /\ ev.kind = "tag" /\ ev.tag = q.tag
     \/ q.op = "ft" /\ ev.kind = "ft"

\* C6: a mutation is sent to the store only in the
\* run started by the user's action asking for it; one that failed is not sent
\* again by a later run.
C6_NoRetry ==
  \A s \in Sessions : pc[s] = "update" => Asks(event[s], req[s])

\* C7: the fine-tuned flag never goes from true to false, a successful
\* mark_finetuned leaves it true, and mark_finetuned is only called for a
\* completion whose card did not show it as fine-tuned.
C7_FinetunedMonotonic ==
  [][/\ \A d \in Docs : store[d].finetuned => store'[d].finetuned
     /\ \A s \in Sessions :
          /\ (pc[s] = "update" /\ pc'[s] = "start" /\ req[s].op = "ft")
               => store'[req[s].doc].finetuned
          /\ (pc'[s] = "update" /\ req'[s].op = "ft")
               => ~view'[s].cards[req'[s].doc].finetuned]_vars

\* C7, a case of it: a fine-tuned completion has also been rated, and its
\* card shows it fine-tuned
C7_Witness ==
  \E s \in Sessions, d \in Docs :
    /\ pc[s] = "idle"
    /\ store[d].finetuned /\ store[d].rating # InitStore[d].rating
    /\ view[s].cards[d].shown /\ view[s].cards[d].finetuned

\* C8: with minimum rating R > 1, every completion displayed has a rating
\* that is present and >= R.
C8_CompletionFilter ==
  \A s \in Sessions :
    (pc[s] = "idle" /\ filter[s] > 1) =>
      \A d \in Docs :
        view[s].cards[d].shown =>
          (view[s].cards[d].rating.ty # "none" /\ view[s].cards[d].rating.v >= filter[s])

\* the rows are the store's current pipeline list
RowsCurrent(rows) ==
  \A p \in Pipelines :
    /\ rows[p].shown
    /\ \E d \in DocsOf(p) : rows[p].rating = store[d].rating /\ rows[p].tags = store[d].tags

\* C9: a run that reads fetch_pipelines while the entry is younger than 30 s
\* gets the entry and does not query the store; a run after the 30 s, or with
\* no entry, queries the store and stores the result (the current list, or the
\* empty list if the search failed) as a new entry; Refresh clears the cache
\* and the run that follows it queries the store; the headers shown are
\* those of the entry.
C9_Cache ==
  [][\A s \in Sessions :
       /\ (pc[s] = "start" /\ pc'[s] \in {"cards", "idle"}) =>
            /\ (cache.valid /\ cache.age < TTL)
                 => (cache' = cache /\ ~view'[s].queried /\ faults' = faults)
            /\ (~cache.valid \/ cache.age > TTL)
                 => /\ view'[s].queried
                    /\ cache'.valid /\ cache'.age = 0
                    /\ \/ RowsCurrent(cache'.rows)
                       \/ faults' < faults /\ NoPipelines(cache'.rows)
            /\ event[s].kind = "refreshed" => view'[s].queried
            /\ \A p \in Pipelines :
                 view'[s].heads[p].shown => view'[s].heads[p] = cache'.rows[p]
       /\ (pc[s] = "start" /\ event[s].kind = "refresh" /\ event'[s].kind = "refreshed")
            => ~cache'.valid]_vars

\* C9, a case of it: the run after Refresh has queried the store and shows a
\* header, after an earlier run was served from the cache
C9_Witness ==
  \E s \in Sessions, p \in Pipelines :
    /\ pc[s] = "idle" /\ view[s].cause = "refreshed"
    /\ view[s].queried /\ view[s].heads[p].shown
    /\ ticks < MaxTicks

\* C10: a step changes at most one document, only by a successful update of
\* that document, and only the field of its operation: the rating to the
\* given value, the tag list, or the fine-tuned flag to true.
C10_Frame ==
  [][\A d \in Docs :
       store'[d] # store[d] =>
         \E s \in Sessions :
           /\ pc[s] = "update" /\ pc'[s] = "start" /\ req[s].doc = d
           /\ \A e \in Docs \ {d} : store'[e] = store[e]
           /\ \/ req[s].op = "rate"
                   /\ store'[d] = [store[d] EXCEPT !.rating = req[s].r]
              \/ req[s].op = "tag"
                   /\ store'[d] = [store[d] EXCEPT !.tags = Append(@, req[s].tag)]
              \/ req[s].op = "ft"
                   /\ store'[d] = [store[d] EXCEPT !.finetuned = TRUE]]_vars

\* C10, a case of it: d2 has been rated by one user and tagged by the other,
\* and the other documents are as first logged
C10_Witness ==
  /\ store["d2"].rating # InitStore["d2"].rating
  /\ store["d2"].tags # InitStore["d2"].tags
  /\ store["d2"].finetuned = InitStore["d2"].finetuned
  /\ store["d1"] = InitStore["d1"] /\ store["d3"] = InitStore["d3"]

====
